---------------------------- MODULE Spec2Model ----------------------------
(***************************************************************************)
(* Model of scripts/helper.py, the Tai-e assignment helper: one command    *)
(* per process invocation (config, list, info, setup, test, package,       *)
(* submit) acting on the assignment directories, scripts/config.json,      *)
(* scripts/assignment_metadata.json and the output directory.              *)
(*                                                                         *)
(* Assignment ids are written as numbers: n stands for the id "A<n>".      *)
(* A path is the sequence of its components; a file's content is a number  *)
(* (Absent = the file does not exist).  Text typed by the user is the      *)
(* sequence of its characters.                                             *)
(***************************************************************************)
EXTENDS Integers, Sequences, FiniteSets, TLC

\* ------------------------------------------------------------- bounds
\* Invocations of the tool in one behaviour.
MaxRuns == 2
\* Distinct file contents a file of an assignment directory may hold.
NumContents == 2

\* ----------------------------------------------------------- universe
Absent == 0
Contents == 1..NumContents
NoArg == 0
Running == -1

pSolver == <<"src", "Solver.java">>
pCFG == <<"src", "CFGBuilder.java">>
pTest == <<"test", "Solver.java">>
RelPaths == {pSolver, pCFG, pTest}

\* scripts/assignment_metadata.json as the tool reads it: A1 declares no
\* "dependencies" key (info.get('dependencies', []) yields the empty list).
Metadata ==
  (1 :> [name |-> "Liveness", files_to_submit |-> <<pSolver, pTest>>,
         dependencies |-> <<>>])
  @@
  (2 :> [name |-> "Dataflow", files_to_submit |-> <<pSolver, pCFG>>,
         dependencies |-> << [from |-> 1, file |-> pSolver],
                             [from |-> 1, file |-> pCFG],
                             [from |-> 1, file |-> pTest] >>])

\* An id that is no key of the metadata and has no directory.
UnknownId == 9
ArgIds == DOMAIN Metadata \cup {UnknownId}

\* ------------------------------------------------------ pure functions
\* get_assignment_dir: root_dir / assignment / "tai-e"
get_assignment_dir(assignment) == <<assignment, "tai-e">>

\* pathlib's `dir / rel`
Join(dir, rel) == dir \o rel

\* os.path.basename
basename(path) == IF Len(path) = 0 THEN "" ELSE path[Len(path)]

\* str.lower on one character (the characters the prompt can receive)
LowerChar(c) ==
  CASE c = "Y" -> "y"
    [] c = "N" -> "n"
    [] c = "A" -> "a"
    [] c = "Q" -> "q"
    [] OTHER -> c

lower(s) == [i \in DOMAIN s |-> LowerChar(s[i])]

RECURSIVE lstrip(_)
lstrip(s) == IF Len(s) > 0 /\ Head(s) = " " THEN lstrip(Tail(s)) ELSE s

RECURSIVE rstrip(_)
rstrip(s) ==
  IF Len(s) > 0 /\ s[Len(s)] = " " THEN rstrip(SubSeq(s, 1, Len(s) - 1)) ELSE s

\* str.strip
strip(s) == rstrip(lstrip(s))

\* str.startswith
startswith(s, prefix) ==
  Len(s) >= Len(prefix) /\ SubSeq(s, 1, Len(prefix)) = prefix

\* sorted(metadata.keys())
RECURSIVE sorted(_)
sorted(S) ==
  IF S = {} THEN <<>>
  ELSE LET m == CHOOSE x \in S : \A y \in S : x <= y
       IN <<m>> \o sorted(S \ {m})

\* f"{student_id}-{student_name}-{assignment}.zip"
zip_filename(student_id, student_name, assignment) ==
  <<student_id, "-", student_name, "-", assignment, ".zip">>


\* ------------------------------------------------------------- fixtures
AllPaths == {Join(get_assignment_dir(a), r) : a \in DOMAIN Metadata, r \in RelPaths}

\* The gradle wrapper script of an assignment directory (POSIX name).
gradle_wrapper(assignment) == Join(get_assignment_dir(assignment), <<"gradlew">>)

\* Assignment directories that hold a gradle wrapper.
WithWrapper == {2}

\* The committed (HEAD) content of the files of the target assignment;
\* Absent = the path is not tracked.
head(path) ==
  CASE path = Join(get_assignment_dir(2), pSolver) -> 1
    [] path = Join(get_assignment_dir(2), pCFG) -> 2
    [] OTHER -> Absent

\* Whether `git log -1 --format=%h|%cr|%s -- path` prints a line.
HasLog(path) == path = Join(get_assignment_dir(2), pSolver)

\* Whole days since the file's modification time.
days_ago(path) ==
  CASE path = Join(get_assignment_dir(2), pSolver) -> 0
    [] path = Join(get_assignment_dir(2), pCFG) -> 1
    [] OTHER -> 3

\* Target paths the user may have made unwritable.
MaybeReadonly == {Join(get_assignment_dir(2), pTest)}

\* What the user may type at the overwrite prompt.
ChoiceInputs ==
  { <<>>, <<"y">>, <<"Y">>, <<" ", "y", " ">>, <<"n">>, <<"a">>, <<"A">>,
    <<"q">>, <<"Q", " ">>, <<"y", "e", "s">>, <<"x">> }

\* What the user may type at the prompts of the config command.
IdInputs == { <<>>, <<" ", "7">> }
NameInputs == { <<>>, <<"Z">>, <<"L", " ">> }

NoConfig == <<>>
InitConfig == [student_id |-> <<"7">>, student_name |-> <<"Z">>]

\* An archive left by an earlier package run of assignment 2.
PriorArchive ==
  << [arcname |-> "Solver.java", data |-> 1],
     [arcname |-> "CFGBuilder.java", data |-> 1] >>

\* Command lines: [command, assignment, force].  "" is no command at all,
\* "bogus" a word that is no subcommand, NoArg a missing positional.
WithAssignment == {"info", "setup", "test", "package", "submit"}
CommandLines ==
  { [command |-> c, assignment |-> NoArg, force |-> FALSE] :
      c \in {"", "bogus", "config", "list", "info"} }
  \cup
  { [command |-> c, assignment |-> a, force |-> FALSE] :
      c \in WithAssignment, a \in ArgIds }
  \cup
  { [command |-> "setup", assignment |-> a, force |-> TRUE] : a \in ArgIds }

\* --------------------------------------------------------------- state
VARIABLES
  fs,              \* path -> content of the files of the assignment dirs
  config,          \* scripts/config.json: NoConfig or the saved record
  metadataExists,  \* scripts/assignment_metadata.json exists
  git,             \* how the git tool behaves: one of GitModes
  readonly,        \* target paths that cannot be written
  outputDir,       \* the output directory exists
  archives,        \* archive file name -> entries, for the archives on disk
  runs,            \* invocations so far
  args,            \* the parsed command line of the running invocation
  pc,              \* where the invocation is
  exitCode,        \* the process's exit status, Running until it ends
  out,             \* what the invocation printed, as tagged lines
  idx,             \* cmd_setup: index of the dependency being processed
  success_count,   \* cmd_setup
  skip_count,      \* cmd_setup
  force_all,       \* cmd_setup
  files_to_package,\* cmd_package
  test_success,    \* cmd_submit: what cmd_test returned
  prev,            \* the previous invocation: what it printed, its status
  start,           \* the disk as the running invocation found it
  typed,           \* the lines input() returned, each with its entry index
  probed           \* the last direct call of check_git_status, or NoProbe

envVars == <<config, metadataExists, git, readonly, probed>>
diskVars == <<fs, outputDir, archives>>
setupVars == <<idx, success_count, skip_count, force_all>>
vars == <<fs, config, metadataExists, git, readonly, outputDir,
          archives, runs, args, pc, exitCode, out, idx, success_count,
          skip_count, force_all, files_to_package, test_success, prev,
          start, typed, probed>>
histVars == <<prev, start, typed>>

NoPrev == [ran |-> FALSE]
NoProbe == [called |-> FALSE]

\* What the two subprocess.run(['git', ...], timeout=5) calls meet:
\*   "ok"      git runs in a repository and prints its answer;
\*   "fails"   git runs and exits non-zero with nothing on stdout (the root
\*             directory is no repository): run() has no check=True, so
\*             nothing is raised;
\*   "absent"  no git executable: run() raises FileNotFoundError;
\*   "timeout" git does not answer in 5 seconds: run() raises TimeoutExpired.
GitModes == {"ok", "fails", "absent", "timeout"}
NoArgs == [command |-> "", assignment |-> NoArg, force |-> FALSE]

exists(path) == path \in DOMAIN fs /\ fs[path] # Absent

\* Path.exists() of an assignment directory: it holds some file.
dir_exists(assignment) ==
  \E p \in DOMAIN fs :
    /\ fs[p] # Absent
    /\ startswith(p, get_assignment_dir(assignment))

InitFs ==
  { f \in [AllPaths \cup {gradle_wrapper(a) : a \in DOMAIN Metadata} -> {Absent} \cup Contents] :
      /\ \A a \in DOMAIN Metadata :
           f[gradle_wrapper(a)] = (IF a \in WithWrapper THEN 1 ELSE Absent)
      \* the untracked test file, where present, holds one content
      /\ \A a \in DOMAIN Metadata :
           f[Join(get_assignment_dir(a), pTest)] \in {Absent, 1} }

Init ==
  /\ fs \in InitFs
  /\ config \in {NoConfig, InitConfig}
  /\ metadataExists \in BOOLEAN
  /\ git \in GitModes
  /\ readonly \in SUBSET MaybeReadonly
  \* no output directory yet, or one holding the archive of an earlier run
  /\ \/ outputDir = FALSE /\ archives = <<>>
     \/ outputDir = TRUE
        /\ archives = (zip_filename(<<"7">>, <<"Z">>, 2) :> PriorArchive)
  \* the degenerate installations come with one file tree only
  /\ (config = NoConfig \/ ~metadataExists) =>
       /\ \A p \in AllPaths : fs[p] = 1
       /\ git = "ok" /\ readonly = {}
  \* the rarer behaviours of git come with writable targets and no output
  \* directory
  /\ git \in {"fails", "timeout"} => (readonly = {} /\ outputDir = FALSE)
  /\ runs = 0
  /\ args = NoArgs
  /\ pc = "idle"
  /\ exitCode = Running
  /\ out = <<>>
  /\ idx = 0 /\ success_count = 0 /\ skip_count = 0 /\ force_all = FALSE
  /\ files_to_package = <<>>
  /\ probed = NoProbe
  /\ test_success = FALSE
  /\ prev = NoPrev
  /\ start = [fs |-> fs, archives |-> archives, outputDir |-> outputDir]
  /\ typed = <<>>

\* sys.exit(code) after printing `lines`
Exit(code, lines) ==
  /\ pc' = "exit"
  /\ exitCode' = code
  /\ out' = out \o lines

\* ------------------------------------------------------------ main
\* The user starts the tool: the first time with any command line, then
\* again with the same command line.
Invoke ==
  /\ pc \in {"idle", "exit"}
  /\ runs < MaxRuns
  /\ IF pc = "idle"
       THEN /\ args' \in CommandLines
            /\ prev' = NoPrev
       ELSE /\ args' = args
            /\ prev' = [ran |-> TRUE, out |-> out, exitCode |-> exitCode]
  /\ start' = [fs |-> fs, archives |-> archives, outputDir |-> outputDir]
  /\ typed' = <<>>
  /\ runs' = runs + 1
  /\ pc' = "main"
  /\ exitCode' = Running
  /\ out' = <<>>
  /\ idx' = 0 /\ success_count' = 0 /\ skip_count' = 0 /\ force_all' = FALSE
  /\ files_to_package' = <<>>
  /\ test_success' = FALSE
  /\ UNCHANGED <<envVars, diskVars>>

\* parse_args with a usage error ending like every other fatal error.
parse_args_exit1(cl) ==
  IF cl.command = "bogus" THEN 1
  ELSE IF cl.command \in WithAssignment /\ cl.assignment = NoArg THEN 1
  ELSE 0

\* argparse's verdict on the command line: 2 = usage error.
parse_args(cl) ==
  IF cl.command = "bogus" THEN 2
  ELSE IF cl.command \in WithAssignment /\ cl.assignment = NoArg THEN 2
  ELSE 0

\* main(): parse the arguments and dispatch on the command.
Main ==
  /\ pc = "main"
  /\ IF parse_args(args) # 0
       THEN Exit(parse_args(args), << <<"usage_error", 0, 0>> >>)
       ELSE IF args.command = ""
         THEN Exit(1, << <<"help", 0, 0>> >>)
         ELSE /\ pc' = args.command
              /\ UNCHANGED <<exitCode, out>>
  /\ UNCHANGED <<envVars, diskVars, runs, args, setupVars, files_to_package,
                 test_success, histVars>>

\* ------------------------------------------------- version-control probe
NoTime == <<>>

\* stdout of `git status --porcelain <path>`
git_status_porcelain(path) ==
  IF head(path) = Absent
    THEN IF exists(path) THEN <<"?", "?", " ", "f">> ELSE <<>>
    ELSE IF ~exists(path) THEN <<" ", "D", " ", "f">>
    ELSE IF fs[path] = head(path) THEN <<>>
    ELSE <<" ", "M", " ", "f">>

\* What subprocess.run raises, "none" when it returns.
run_raises ==
  IF git = "absent" THEN "FileNotFoundError"
  ELSE IF git = "timeout" THEN "TimeoutExpired"
  ELSE "none"

\* result.stdout of the first run() when it returns.
run_stdout(path) ==
  IF git = "fails" THEN <<>> ELSE git_status_porcelain(path)

\* except (subprocess.SubprocessError, FileNotFoundError)
SubprocessErrors == {"TimeoutExpired", "CalledProcessError"}
caught(exception) ==
  exception \in SubprocessErrors \cup {"FileNotFoundError"}

\* The fallback's coarse age of a file.
relative_age(days) ==
  IF days = 0 THEN <<"today">>
  ELSE IF days = 1 THEN <<"yesterday">>
  ELSE <<days, "days ago">>

\* check_git_status: [status, time]; time = NoTime when the result has
\* no 'time' key.
check_git_status(file_path) ==
  IF ~caught(run_raises)
    THEN LET status == strip(run_stdout(file_path))
         IN IF status = <<>>
              THEN [status |-> "unmodified", time |-> NoTime]
            ELSE IF \/ startswith(status, <<" ", "M">>)
                    \/ startswith(status, <<"M", " ">>)
              THEN IF HasLog(file_path)
                     THEN [status |-> "modified", time |-> <<"%cr">>]
                     ELSE [status |-> "modified", time |-> NoTime]
            ELSE IF startswith(status, <<"?", "?">>)
              THEN [status |-> "untracked", time |-> NoTime]
            ELSE [status |-> "unknown", time |-> NoTime]
    ELSE IF exists(file_path)
      THEN [status |-> "unknown", time |-> relative_age(days_ago(file_path))]
      ELSE [status |-> "unknown", time |-> NoTime]

\* ------------------------------------------------------------ cmd_setup
\* load_metadata's check: the lines printed when the file is missing.
MetadataMissing == << <<"metadata_not_found", 0, 0>> >>

deps_of(assignment) == Metadata[assignment].dependencies

\* cmd_setup up to the loop: load the metadata, check the id, read the
\* dependency list.
CmdSetup ==
  /\ pc = "setup"
  /\ IF ~metadataExists
       THEN Exit(1, MetadataMissing) /\ UNCHANGED setupVars
     ELSE IF args.assignment \notin DOMAIN Metadata
       THEN /\ Exit(1, << <<"invalid_assignment", args.assignment, 0>> >>)
            /\ UNCHANGED setupVars
     ELSE IF deps_of(args.assignment) = <<>>
       THEN /\ Exit(0, << <<"no_dependencies", args.assignment, 0>> >>)
            /\ UNCHANGED setupVars
     ELSE /\ pc' = "setup_loop"
          /\ out' = out \o << <<"setting_up", args.assignment, 0>> >>
          /\ idx' = 1
          /\ success_count' = 0
          /\ skip_count' = 0
          /\ force_all' = args.force
          /\ UNCHANGED exitCode
  /\ UNCHANGED <<envVars, diskVars, runs, args, files_to_package,
                 test_success, histVars>>

source_of(assignment, i) ==
  Join(get_assignment_dir(deps_of(assignment)[i].from), deps_of(assignment)[i].file)

target_of(assignment, i) ==
  Join(get_assignment_dir(assignment), deps_of(assignment)[i].file)

\* The status line of an entry whose source exists.
status_line(target_exists, is_modified) ==
  IF ~target_exists THEN "not_exist"
  ELSE IF is_modified THEN "modified"
  ELSE "unchanged"

is_modified_target(target_file) ==
  exists(target_file) /\ check_git_status(target_file).status = "modified"

\* needs_confirmation without the look at the force flag.
needs_confirmation_ignores_force(is_modified, force) == is_modified

\* `if is_modified and not force_all`: the entry needs the user's word.
needs_confirmation(is_modified, force) == is_modified /\ ~force

\* input().lower().strip()
read_choice(line) == strip(lower(line))

\* decide with overwriting as the default: only n skips.
decide_default_yes(choice) ==
  IF choice = <<"q">> THEN "quit"
  ELSE IF choice = <<"a">> THEN "all"
  ELSE IF choice = <<"n">> THEN "skip"
  ELSE "yes"

\* decide with a taken for y: the flag is not carried on.
decide_all_as_yes(choice) ==
  IF choice = <<"q">> THEN "quit"
  ELSE IF choice = <<"a">> THEN "yes"
  ELSE IF choice # <<"y">> THEN "skip"
  ELSE "yes"

\* decide without the quit branch: q is one more unrecognised line.
decide_quit_as_skip(choice) ==
  IF choice = <<"a">> THEN "all"
  ELSE IF choice # <<"y">> THEN "skip"
  ELSE "yes"

\* The branch the prompt's if/elif chain takes.
decide(choice) ==
  IF choice = <<"q">> THEN "quit"
  ELSE IF choice = <<"a">> THEN "all"
  ELSE IF choice # <<"y">> THEN "skip"
  ELSE "yes"

\* mkdir(parents=True, exist_ok=True) and shutil.copy2 raise: the target
\* cannot be written, or source and target are the same file.
copy_fails(source_file, target_file) ==
  target_file \in readonly \/ source_file = target_file

\* PerformCopy with the count outside the try block: a failed copy counts.
PerformCopy_counts_failure(source_file, target_file, is_modified, force, lines) ==
  /\ IF copy_fails(source_file, target_file)
       THEN /\ out' = out \o lines \o << <<"failed", idx, 0>> >>
            /\ success_count' = success_count + 1
            /\ UNCHANGED fs
       ELSE /\ fs' = [fs EXCEPT ![target_file] = fs[source_file]]
            /\ out' = out \o lines \o
                 << <<"copied", idx, IF is_modified /\ force THEN 1 ELSE 0>> >>
            /\ success_count' = success_count + 1
  /\ idx' = idx + 1
  /\ force_all' = force
  /\ UNCHANGED <<pc, exitCode, skip_count>>

\* The try block of an entry: copy and count, or report the failure.
PerformCopy(source_file, target_file, is_modified, force, lines) ==
  /\ IF copy_fails(source_file, target_file)
       THEN /\ out' = out \o lines \o << <<"failed", idx, 0>> >>
            /\ UNCHANGED <<fs, success_count>>
       ELSE /\ fs' = [fs EXCEPT ![target_file] = fs[source_file]]
            /\ out' = out \o lines \o
                 << <<"copied", idx, IF is_modified /\ force THEN 1 ELSE 0>> >>
            /\ success_count' = success_count + 1
  /\ idx' = idx + 1
  /\ force_all' = force
  /\ UNCHANGED <<pc, exitCode, skip_count>>

\* One iteration of the loop over the dependencies.
SetupStep ==
  /\ pc = "setup_loop"
  /\ idx <= Len(deps_of(args.assignment))
  /\ LET source_file == source_of(args.assignment, idx)
         target_file == target_of(args.assignment, idx)
         is_modified == is_modified_target(target_file)
         status == << <<"status", idx, status_line(exists(target_file), is_modified)>> >>
         asked == status \o << <<"prompt", idx, 0>> >>
     IN IF ~exists(source_file)
          THEN /\ out' = out \o << <<"status", idx, "source_not_found">> >>
               /\ idx' = idx + 1
               /\ UNCHANGED <<fs, pc, exitCode, success_count, skip_count,
                              force_all, typed>>
        ELSE IF needs_confirmation(is_modified, force_all)
          THEN \/ \E line \in ChoiceInputs :
                    LET d == decide(read_choice(line))
                    IN /\ typed' = Append(typed, <<idx, line>>)
                       /\ IF d = "quit"
                            THEN /\ Exit(0, asked \o << <<"cancelled", 0, 0>> >>)
                                 /\ UNCHANGED <<fs, setupVars>>
                          ELSE IF d = "skip"
                            THEN /\ out' = out \o asked \o << <<"skipped", idx, 0>> >>
                                 /\ skip_count' = skip_count + 1
                                 /\ idx' = idx + 1
                                 /\ UNCHANGED <<fs, pc, exitCode, success_count,
                                                force_all>>
                          ELSE PerformCopy(source_file, target_file, is_modified,
                                           (d = "all") \/ force_all, asked)
               \* input() raises EOFError: main's `except Exception`
               \/ /\ Exit(1, asked \o << <<"error", 0, 0>> >>)
                  /\ UNCHANGED <<fs, setupVars, typed>>
               \* Ctrl-C at the prompt: main's `except KeyboardInterrupt`
               \/ /\ Exit(1, asked \o << <<"operation_cancelled", 0, 0>> >>)
                  /\ UNCHANGED <<fs, setupVars, typed>>
        ELSE /\ PerformCopy(source_file, target_file, is_modified, force_all, status)
             /\ UNCHANGED typed
  /\ UNCHANGED <<envVars, outputDir, archives, runs, args, files_to_package,
                 test_success, prev, start>>

\* After the loop: the summary, and main returns.
SetupSummary ==
  /\ pc = "setup_loop"
  /\ idx > Len(deps_of(args.assignment))
  /\ Exit(0, << <<"summary", success_count, skip_count>> >>)
  /\ UNCHANGED <<envVars, diskVars, runs, args, setupVars, files_to_package,
                 test_success, histVars>>

\* ------------------------------------------------------------- cmd_config
\* One prompt of cmd_config: the typed text stripped, the previous value
\* when nothing was typed and there is one.
prompt_value(line, default) ==
  IF strip(line) = <<>> /\ default # <<>> THEN default ELSE strip(line)

CmdConfig ==
  /\ pc = "config"
  /\ \/ \E id_line \in IdInputs, name_line \in NameInputs :
          LET default_id == IF config = NoConfig THEN <<>> ELSE config.student_id
              default_name == IF config = NoConfig THEN <<>> ELSE config.student_name
              student_id == prompt_value(id_line, default_id)
              student_name == prompt_value(name_line, default_name)
          IN IF student_id = <<>> \/ student_name = <<>>
               THEN /\ Exit(1, << <<"id_and_name_required", 0, 0>> >>)
                    /\ UNCHANGED config
               ELSE /\ config' = [student_id |-> student_id,
                                  student_name |-> student_name]
                    /\ Exit(0, << <<"config_saved", 0, 0>> >>)
     \* input() raises EOFError
     \/ /\ Exit(1, << <<"error", 0, 0>> >>)
        /\ UNCHANGED config
  /\ UNCHANGED <<metadataExists, git, readonly, probed, diskVars, runs, args,
                 setupVars, files_to_package, test_success, histVars>>

\* ----------------------------------------------------- cmd_list, cmd_info
CmdList ==
  /\ pc = "list"
  /\ IF ~metadataExists
       THEN Exit(1, MetadataMissing)
       ELSE Exit(0, [i \in 1..Cardinality(DOMAIN Metadata) |->
                       <<"assignment", sorted(DOMAIN Metadata)[i], 0>>])
  /\ UNCHANGED <<envVars, diskVars, runs, args, setupVars, files_to_package,
                 test_success, histVars>>

CmdInfo ==
  /\ pc = "info"
  /\ IF ~metadataExists
       THEN Exit(1, MetadataMissing)
     ELSE IF args.assignment \notin DOMAIN Metadata
       THEN Exit(1, << <<"invalid_assignment", args.assignment, 0>>,
                       <<"valid_assignments", sorted(DOMAIN Metadata), 0>> >>)
     ELSE Exit(0, << <<"info", args.assignment, 0>> >>)
  /\ UNCHANGED <<envVars, diskVars, runs, args, setupVars, files_to_package,
                 test_success, histVars>>

\* --------------------------------------------------------------- cmd_test
\* How the gradle child process may end: it could not be started
\* (subprocess.run raised), or it exited with a return code.
ChildResults ==
  { [raised |-> TRUE, returncode |-> 0],
    [raised |-> FALSE, returncode |-> 0],
    [raised |-> FALSE, returncode |-> 1] }

\* What cmd_test returns for a child result.
test_result(child) == ~child.raised /\ child.returncode = 0

test_lines(child) ==
  IF child.raised THEN << <<"failed_to_run_tests", 0, 0>> >>
  ELSE IF child.returncode = 0 THEN << <<"build_successful", 0, 0>> >>
  ELSE << <<"build_failed", 0, 0>> >>

\* cmd_test, as the test command and as the first half of cmd_submit.
CmdTest ==
  /\ pc \in {"test", "submit"}
  /\ LET banner == IF pc = "submit"
                     THEN << <<"submitting", args.assignment, 0>> >>
                     ELSE <<>>
     IN IF ~dir_exists(args.assignment)
          THEN /\ Exit(1, banner \o << <<"assignment_dir_not_found", 0, 0>> >>)
               /\ UNCHANGED test_success
        ELSE IF ~exists(gradle_wrapper(args.assignment))
          THEN /\ Exit(1, banner \o << <<"gradle_wrapper_not_found", 0, 0>> >>)
               /\ UNCHANGED test_success
        ELSE \/ \E child \in ChildResults :
                  /\ test_success' = test_result(child)
                  /\ out' = out \o banner \o test_lines(child)
                  /\ IF pc = "submit"
                       THEN pc' = "submit_tested" /\ UNCHANGED exitCode
                       ELSE pc' = "exit" /\ exitCode' = 0
             \* Ctrl-C while the child runs
             \/ /\ Exit(1, banner \o << <<"operation_cancelled", 0, 0>> >>)
                /\ UNCHANGED test_success
  /\ UNCHANGED <<envVars, diskVars, runs, args, setupVars, files_to_package, histVars>>

\* ------------------------------------------------------------- cmd_submit
\* tests_block with the result of the tests ignored.
tests_block_never(success) == FALSE

\* `if not test_success`: the tests block the packaging.
tests_block(success) == ~success

\* cmd_submit after cmd_test returned.
CmdSubmit ==
  /\ pc = "submit_tested"
  /\ IF tests_block(test_success)
       THEN Exit(1, << <<"tests_failed_cannot_package", 0, 0>> >>)
       ELSE /\ pc' = "package"
            /\ out' = out \o << <<"tests_passed", 0, 0>> >>
            /\ UNCHANGED exitCode
  /\ UNCHANGED <<envVars, diskVars, runs, args, setupVars, files_to_package,
                 test_success, histVars>>

\* ------------------------------------------------------------ cmd_package
files_of(assignment) == Metadata[assignment].files_to_submit

\* The declared files found under the assignment directory, in order, as
\* (source_file, file_rel_path) pairs.
collect_files(assignment) ==
  LET found(r) == exists(Join(get_assignment_dir(assignment), r))
      rels == SelectSeq(files_of(assignment), found)
  IN [i \in DOMAIN rels |->
        <<Join(get_assignment_dir(assignment), rels[i]), rels[i]>>]

\* missing_files with no file ever reported missing.
missing_files_none(assignment) == <<>>

\* The declared files that are not there.
missing_files(assignment) ==
  LET gone(r) == ~exists(Join(get_assignment_dir(assignment), r))
  IN SelectSeq(files_of(assignment), gone)

\* The lines of the collection loop: one per declared file.
collect_lines(assignment) ==
  [i \in DOMAIN files_of(assignment) |->
     <<IF exists(Join(get_assignment_dir(assignment), files_of(assignment)[i]))
         THEN "found" ELSE "not_found",
       basename(files_of(assignment)[i]), 0>>]

\* cmd_package up to the archive: load config and metadata, check the id,
\* create the output directory, collect the files, stop when one is missing.
CmdPackage ==
  /\ pc = "package"
  /\ IF config = NoConfig
       THEN /\ Exit(1, << <<"config_not_found", 0, 0>> >>)
            /\ UNCHANGED <<outputDir, files_to_package>>
     ELSE IF ~metadataExists
       THEN /\ Exit(1, MetadataMissing)
            /\ UNCHANGED <<outputDir, files_to_package>>
     ELSE IF args.assignment \notin DOMAIN Metadata
       THEN /\ Exit(1, << <<"invalid_assignment", args.assignment, 0>> >>)
            /\ UNCHANGED <<outputDir, files_to_package>>
     ELSE /\ outputDir' = TRUE
          /\ files_to_package' = collect_files(args.assignment)
          /\ IF missing_files(args.assignment) # <<>>
               THEN Exit(1, << <<"packaging", args.assignment, 0>> >>
                              \o collect_lines(args.assignment)
                              \o << <<"cannot_package",
                                      Len(missing_files(args.assignment)), 0>> >>)
               ELSE /\ pc' = "package_write"
                    /\ out' = out \o << <<"packaging", args.assignment, 0>> >>
                                  \o collect_lines(args.assignment)
                    /\ UNCHANGED exitCode
  /\ UNCHANGED <<envVars, fs, archives, runs, args, setupVars, test_success, histVars>>

\* zip_entries naming each entry by the first component of its path.
zip_entries_first_component(files) ==
  [i \in DOMAIN files |->
     [arcname |-> files[i][2][1], data |-> fs[files[i][1]]]]

\* The entries zipf.write adds: each file under its base name.
zip_entries(files) ==
  [i \in DOMAIN files |->
     [arcname |-> basename(files[i][2]), data |-> fs[files[i][1]]]]

zip_path == zip_filename(config.student_id, config.student_name, args.assignment)

\* cmd_package from "Create ZIP file": write the archive and report it.
PackageWrite ==
  /\ pc = "package_write"
  /\ archives' = (zip_path :> zip_entries(files_to_package)) @@ archives
  /\ Exit(0, << <<"package_created", zip_path, Len(files_to_package)>> >>)
  /\ UNCHANGED <<envVars, fs, outputDir, runs, args, setupVars,
                 files_to_package, test_success, histVars>>

Next ==
  \/ Invoke
  \/ Main
  \/ CmdConfig
  \/ CmdList
  \/ CmdInfo
  \/ CmdSetup
  \/ SetupStep
  \/ SetupSummary
  \/ CmdTest
  \/ CmdSubmit
  \/ CmdPackage
  \/ PackageWrite

Spec == Init /\ [][Next]_vars

\* ------------------------------------------- the probe, called on its own
\* check_git_status applied to one path of the tree, whatever holds there
\* (cmd_setup only ever passes it targets that exist).
Probe ==
  /\ pc = "idle"
  /\ \E file_path \in DOMAIN fs :
       probed' = [called |-> TRUE, file_path |-> file_path,
                  result |-> check_git_status(file_path)]
  /\ UNCHANGED <<config, metadataExists, git, readonly, diskVars, runs, args,
                 pc, exitCode, out, setupVars, files_to_package, test_success,
                 histVars>>

NextProbe == Probe

SpecProbe == Init /\ [][NextProbe]_vars

\* ================================================================ claims
\* Reading the printed lines and the recorded history.
HasLine(tag) == \E i \in DOMAIN out : out[i][1] = tag
HasLineAt(tag, k) == \E i \in DOMAIN out : out[i][1] = tag /\ out[i][2] = k
Ended == pc = "exit"
ValidId == args.assignment \in DOMAIN Metadata

\* The declared submission files absent when the invocation started.
MissingAtStart ==
  { i \in DOMAIN Metadata[args.assignment].files_to_submit :
      start.fs[<<args.assignment, "tai-e">>
               \o Metadata[args.assignment].files_to_submit[i]] = Absent }

\* C1: a package run with a declared submission file absent ends with
\* status 1 and leaves the archives as it found them: none created, none
\* overwritten.
C1_FailedPackageKeepsArchive ==
  (Ended /\ args.command = "package" /\ ValidId /\ MissingAtStart # {})
    => /\ exitCode = 1
       /\ archives = start.archives

\* A failed package run of assignment 2, a file missing, the archive of an
\* earlier run still in place.
C1_Witness ==
  /\ Ended /\ args.command = "package" /\ args.assignment = 2
  /\ MissingAtStart # {}
  /\ HasLine("cannot_package")
  /\ config = InitConfig
  /\ DOMAIN archives # {}
  /\ \A z \in DOMAIN archives : archives[z] = PriorArchive

\* The test runner reported a failure: the child exited non-zero or could
\* not be run.
TestFailureReported == HasLine("build_failed") \/ HasLine("failed_to_run_tests")
PackagingInvoked ==
  pc \in {"package", "package_write"} \/ HasLine("packaging")
    \/ HasLine("package_created") \/ HasLine("tests_passed")

\* C2: in a submit run, packaging is never invoked after the test runner
\* reported failure: the run ends with status 1 and writes no archive;
\* packaging is invoked only after a successful test run.
C2_SubmitPackagesOnlyAfterSuccess ==
  args.command = "submit" =>
    /\ TestFailureReported =>
         /\ ~PackagingInvoked
         /\ archives = start.archives
         /\ pc \in {"submit_tested", "exit"}
         /\ Ended => exitCode = 1
    /\ PackagingInvoked => HasLine("build_successful")
    /\ archives # start.archives => HasLine("build_successful")

\* A submit run that stopped on failing tests.
C2_Witness ==
  /\ Ended /\ args.command = "submit" /\ exitCode = 1
  /\ HasLine("build_failed")
  /\ HasLine("tests_failed_cannot_package")
  /\ ~(\A p \in AllPaths : fs[p] = Absent)

\* C3: for an id that is no key of the metadata, info, setup and package end
\* with a non-zero status and a diagnostic listing the valid ids, having
\* copied no file and written no archive.
C3_UnknownIdListsValidIds ==
  (/\ Ended /\ args.command \in {"info", "setup", "package"}
   /\ args.assignment # NoArg /\ ~ValidId
   /\ metadataExists /\ config # NoConfig)
    => /\ exitCode # 0
       /\ HasLine("valid_assignments")
       /\ fs = start.fs
       /\ archives = start.archives

\* What the user's line at a prompt means: y, a or q in either case, with
\* blanks around it; anything else is no, empty or unrecognised.
SaidYes == { <<"y">>, <<"Y">>, <<" ", "y", " ">> }
SaidAll == { <<"a">>, <<"A">> }
SaidQuit == { <<"q">>, <<"Q", " ">> }
SaidOther == ChoiceInputs \ (SaidYes \cup SaidAll \cup SaidQuit)
AnsweredAt(i, S) == \E k \in DOMAIN typed : typed[k][1] = i /\ typed[k][2] \in S
InSetup == args.command = "setup" /\ pc \in {"setup_loop", "exit"} /\ HasLine("setting_up")
Deps == Metadata[args.assignment].dependencies
SourceFile(i) == <<Deps[i].from, "tai-e">> \o Deps[i].file
TargetFile(i) == <<args.assignment, "tai-e">> \o Deps[i].file

\* C4: a step of setup on an existing target classified modified copies
\* over it only in force mode, or after yes or all at its prompt, or after
\* all at an earlier prompt; after any other line the target is unchanged,
\* the entry is counted as skipped and the loop goes on to the next entry.
C4_ModifiedOverwrittenOnlyOnConsent ==
  [][ (/\ pc = "setup_loop" /\ idx <= Len(Deps)
       /\ fs[SourceFile(idx)] # Absent
       /\ is_modified_target(TargetFile(idx)))
      => LET line == IF Len(typed') > Len(typed)
                       THEN typed'[Len(typed')][2] ELSE <<"-">>
         IN /\ (\/ fs'[TargetFile(idx)] # fs[TargetFile(idx)]
                \/ success_count' # success_count
                \/ \E k \in DOMAIN out' : out'[k][1] = "copied" /\ out'[k][2] = idx)
               => \/ args.force
                  \/ \E k \in DOMAIN typed : typed[k][2] \in SaidAll
                  \/ line \in SaidYes \cup SaidAll
            /\ line \in SaidOther
               => /\ fs' = fs
                  /\ skip_count' = skip_count + 1
                  /\ success_count' = success_count
                  /\ idx' = idx + 1
                  /\ pc' = "setup_loop"
                  /\ out'[Len(out')] = <<"skipped", idx, 0>> ]_vars

\* "Y" at the first prompt overwrote the first target, the word "yes" at
\* the second prompt skipped the second.
C4_Witness ==
  /\ InSetup /\ ~args.force
  /\ Len(typed) = 2
  /\ typed[1] = <<1, <<"Y">> >>
  /\ typed[2] = <<2, <<"y", "e", "s">> >>
  /\ HasLineAt("copied", 1) /\ fs[TargetFile(1)] # start.fs[TargetFile(1)]
  /\ HasLineAt("skipped", 2) /\ fs[TargetFile(2)] = start.fs[TargetFile(2)]
  /\ fs[TargetFile(2)] # fs[SourceFile(2)]
  /\ skip_count = 1 /\ success_count = 1

\* C5 as stated: once all is answered at entry i, entry i and every later
\* entry whose source exists is copied, and no later entry is prompted for.
C5_AllCopiesEveryLater ==
  \A i \in 1..3 :
    (InSetup /\ AnsweredAt(i, SaidAll) /\ Ended)
      => \A j \in i..Len(Deps) :
           /\ j > i => ~HasLineAt("prompt", j)
           /\ fs[SourceFile(j)] # Absent => HasLineAt("copied", j)

\* C5 as amended: once all is answered at entry i the force flag stays set,
\* no later entry is prompted for, the run ends only with the summary, and
\* for entry i and every later entry whose source exists the copy is made
\* unless the copy itself fails (the target cannot be written), which is
\* reported for that entry.
C5_AllAttemptsEveryLater ==
  \A i \in 1..3 :
    (InSetup /\ AnsweredAt(i, SaidAll))
      => /\ pc = "setup_loop" => force_all
         /\ Ended => HasLine("summary") /\ exitCode = 0
         /\ \A j \in i..Len(Deps) :
              /\ j > i => ~HasLineAt("prompt", j)
              /\ (j < idx /\ fs[SourceFile(j)] # Absent)
                 => IF TargetFile(j) \in readonly
                      THEN HasLineAt("failed", j) /\ ~HasLineAt("copied", j)
                      ELSE /\ HasLineAt("copied", j)
                           /\ fs[TargetFile(j)] = fs[SourceFile(j)]

\* All was answered at the first prompt, the second target was modified
\* too and was overwritten without a prompt, the run ended.
C5_Witness ==
  /\ InSetup /\ Ended /\ AnsweredAt(1, SaidAll)
  /\ HasLineAt("copied", 1)
  /\ \E k \in DOMAIN out : out[k] = <<"status", 2, "modified">>
  /\ ~HasLineAt("prompt", 2)
  /\ \E k \in DOMAIN out : out[k] = <<"copied", 2, 1>>
  /\ HasLineAt("copied", 3)

\* C6: quit at the prompt of entry i ends the run at once with status 0:
\* the prompted target and every later one are as the run found them, and
\* what was copied for earlier entries stays.
C6_QuitAbortsAtOnce ==
  \A i \in 1..3 :
    (args.command = "setup" /\ AnsweredAt(i, SaidQuit))
      => /\ Ended /\ exitCode = 0
         /\ out[Len(out)] = <<"cancelled", 0, 0>>
         /\ ~HasLine("summary")
         /\ \A j \in i..Len(Deps) :
              /\ fs[TargetFile(j)] = start.fs[TargetFile(j)]
              /\ ~HasLineAt("copied", j) /\ ~HasLineAt("failed", j)
              /\ j > i => ~HasLineAt("status", j)
         /\ \A j \in 1..(i - 1) :
              HasLineAt("copied", j) => fs[TargetFile(j)] = fs[SourceFile(j)]

\* Quit at the second prompt, after the first entry overwrote its target.
C6_Witness ==
  /\ InSetup /\ Ended /\ AnsweredAt(2, SaidQuit)
  /\ HasLineAt("copied", 1)
  /\ fs[TargetFile(1)] # start.fs[TargetFile(1)]
  /\ fs[SourceFile(3)] # Absent
  /\ fs[TargetFile(3)] = Absent

\* C7: after a successful package run (alone or at the end of submit) the
\* archive {student_id}-{student_name}-{assignment}.zip in the output
\* directory holds one entry per declared file, in order, named by the
\* file's base name, with the content the file had when the run started;
\* no other archive is touched.
C7_ArchiveHoldsDeclaredFiles ==
  (Ended /\ exitCode = 0 /\ args.command \in {"package", "submit"})
    => /\ ValidId /\ config # NoConfig /\ outputDir
       /\ LET files == Metadata[args.assignment].files_to_submit
              z == <<config.student_id, "-", config.student_name, "-",
                     args.assignment, ".zip">>
          IN /\ z \in DOMAIN archives
             /\ Len(archives[z]) = Len(files)
             /\ \A i \in DOMAIN files :
                  /\ archives[z][i].arcname = files[i][Len(files[i])]
                  /\ archives[z][i].data =
                       start.fs[<<args.assignment, "tai-e">> \o files[i]]
                  /\ archives[z][i].data # Absent
             /\ \A y \in DOMAIN archives \ {z} :
                  y \in DOMAIN start.archives /\ archives[y] = start.archives[y]

\* Assignment 1 packaged: two declared files with the same base name and
\* different contents, both in the archive.
C7_Witness ==
  /\ Ended /\ exitCode = 0 /\ args.command = "package" /\ args.assignment = 1
  /\ \E z \in DOMAIN archives :
       archives[z] = << [arcname |-> "Solver.java", data |-> 2],
                        [arcname |-> "Solver.java", data |-> 1] >>

\* argparse rejects the command line: no such command, or the assignment
\* argument is missing.
Rejected ==
  \/ args.command \notin {"", "config", "list", "info", "setup", "test",
                          "package", "submit"}
  \/ args.command \in {"info", "setup", "test", "package", "submit"}
     /\ args.assignment = NoArg

\* Why an invocation with an accepted command line fails: no command, a
\* missing config or metadata file, an invalid id, a missing directory,
\* wrapper or submission file, failing tests under submit, an exception,
\* an interrupt.
FatalCause ==
  \/ args.command = ""
  \/ args.command \in {"list", "info", "setup"} /\ ~metadataExists
  \/ args.command \in {"info", "setup"} /\ ~ValidId
  \/ args.command \in {"setup", "config"}
     /\ (HasLine("error") \/ HasLine("operation_cancelled"))
  \/ args.command = "config" /\ HasLine("id_and_name_required")
  \/ args.command \in {"test", "submit"}
     /\ \/ \A p \in DOMAIN fs :
             fs[p] = Absent \/ p[1] # args.assignment
        \/ fs[<<args.assignment, "tai-e", "gradlew">>] = Absent
        \/ HasLine("operation_cancelled")
  \/ args.command = "submit" /\ TestFailureReported
  \/ args.command \in {"package", "submit"}
     /\ (config = NoConfig \/ ~metadataExists \/ ~ValidId \/ MissingAtStart # {})

\* C8 as stated: every invocation ends with status 0 or 1, with 1 exactly
\* on a fatal error (a rejected command line among them) or an interrupt.
C8_ExitZeroOrOne ==
  Ended => /\ exitCode \in {0, 1}
           /\ exitCode = 1 <=> (Rejected \/ FatalCause)

\* C8 as amended: an invocation whose command line argparse rejects ends
\* with status 2; every other one ends with 1 exactly on a fatal error or
\* an interrupt and with 0 otherwise: on success, on quit during setup, and
\* when the test command ran its tests, whatever their outcome.
C8_ExitCodes ==
  Ended => IF Rejected
             THEN exitCode = 2
             ELSE /\ exitCode \in {0, 1}
                  /\ exitCode = 1 <=> FatalCause
                  /\ (\E i \in 1..3 : AnsweredAt(i, SaidQuit)) => exitCode = 0

\* A command line without its assignment argument ended with status 2.
C8_Witness ==
  /\ Ended /\ exitCode = 2
  /\ args.command = "info" /\ args.assignment = NoArg
  /\ HasLine("usage_error")

\* The entries a setup run reported as copied.
CopiedIn(lines) ==
  { lines[k][2] : k \in { n \in DOMAIN lines : lines[n][1] = "copied" } }

SecondForcedSetup ==
  /\ Ended /\ prev.ran /\ args.command = "setup" /\ args.force
  /\ HasLine("setting_up")

\* C9 as stated: the second of two setup runs in force mode prompts for
\* nothing, reports for every entry what the first reported and the same
\* counts, and leaves every file as the first run left it.
C9_SecondRunReportsSame ==
  SecondForcedSetup
    => /\ ~HasLine("prompt")
       /\ out = prev.out
       /\ fs = start.fs

\* C9 as amended: the second run prompts for nothing, ends with the same
\* copied and skipped counts, copies the same entries as the first and
\* leaves every file as the first run left it; the status it prints for an
\* entry and the "overwrote local changes" note may differ from the first
\* run's.
C9_SecondRunSameOutcome ==
  SecondForcedSetup
    => /\ ~HasLine("prompt")
       /\ HasLine("summary") /\ exitCode = 0 /\ prev.exitCode = 0
       /\ out[Len(out)] = prev.out[Len(prev.out)]
       /\ CopiedIn(out) = CopiedIn(prev.out)
       /\ fs = start.fs

\* Both forced runs copied all three entries; the first found the second
\* target unchanged and copied it, the second found it modified and
\* reported it as overwritten.
C9_Witness ==
  /\ SecondForcedSetup
  /\ out[Len(out)] = <<"summary", 3, 0>>
  /\ \E k \in DOMAIN prev.out : prev.out[k] = <<"status", 2, "unchanged">>
  /\ \E k \in DOMAIN prev.out : prev.out[k] = <<"copied", 2, 0>>
  /\ \E k \in DOMAIN out : out[k] = <<"status", 2, "modified">>
  /\ \E k \in DOMAIN out : out[k] = <<"copied", 2, 1>>

C11_FailedPackageLeavesDiskUnchanged ==
  (/\ Ended /\ args.command = "package" /\ ValidId
   /\ HasLine("cannot_package") /\ MissingAtStart # {})
    => /\ fs = start.fs
       /\ archives = start.archives
       /\ outputDir = start.outputDir

\* The probe's fallback time strings: today, yesterday, N days ago.
IsRelativeAge(time) ==
  \/ Len(time) = 1 /\ time[1] \in {"today", "yesterday"}
  \/ Len(time) = 2 /\ time[2] = "days ago"

Statuses == {"unmodified", "modified", "untracked", "unknown"}

\* C12: the probe answers every path with one of the four statuses, and
\* when git is absent, fails or times out the answer is the fallback:
\* unknown, with a relative age (today / yesterday / N days ago) if the
\* file exists and with no time if it does not.
C12_ProbeFallsBack ==
  probed.called =>
    /\ probed.result.status \in Statuses
    /\ git \in {"absent", "fails", "timeout"} =>
         /\ probed.result.status = "unknown"
         /\ exists(probed.file_path) => IsRelativeAge(probed.result.time)
         /\ ~exists(probed.file_path) => probed.result.time = NoTime

============================================================================
